---- MODULE Spec2Model ----
(***************************************************************************)
(* A model of the two analytical components of the delivery-fleet          *)
(* application:                                                            *)
(*   - RouteOptimizer (backend/route_optimizer.py): one optimize_routes    *)
(*     run, step by step (fetch, cluster, greedy assignment, overflow      *)
(*     split, persist), against a repository whose queries may raise;      *)
(*   - DeliveryTimePredictor (machine_learning/delivery_predictor.py):     *)
(*     the fields of one predictor instance under train, predict,          *)
(*     save_model, load_model and get_feature_importance;                  *)
(*   - train_model_from_database (same file): one run of the trainer,      *)
(*     from the repository's rows to the saved predictor;                  *)
(*   - the pure computations of the trainer and of prepare_features,       *)
(*     applied to one input.                                               *)
(* OptSpec runs the optimizer, PredSpec the predictor, TrainerSpec the     *)
(* trainer and FnSpec the pure computations; OptFairSpec is OptSpec with   *)
(* every call running to its end, OptTwiceSpec two optimizer calls in a    *)
(* row on a repository that does not raise.                                *)

(***************************************************************************)
EXTENDS Integers, Sequences, FiniteSets, TLC

VARIABLES
    \* ---- the repository (DeliveryLog / Vehicles) as the optimizer sees it
    dbPending,           \* rows of the pending-deliveries query, in query order
    dbVehicles,          \* rows of the availability query, in query order
    dbLogVehicles,       \* the distinct vehicle identifiers of the delivery log
    \* ---- one optimize_routes call
    pc,                  \* position in optimize_routes
    max_per_vehicle,     \* the max_deliveries_per_vehicle argument
    pending_deliveries,  \* local of optimize_routes
    available_vehicles,  \* local of optimize_routes
    sorted_clusters,     \* local of _assign_clusters_to_vehicles
    ci,                  \* index of the cluster the for loop is at
    vehicle_loads,       \* local dict of _assign_clusters_to_vehicles
    assignments,         \* the assignment list being built
    remaining,           \* local of _split_and_assign_cluster
    time_saved,          \* local of optimize_routes
    ui,                  \* index of the next update of the persist loops
    updated_count,       \* local of _update_delivery_routes
    updates,             \* every repo.execute call issued, in order
    update_errors,       \* how many of them raised (one error line each)
    result,              \* the dict optimize_routes returned
    previous,            \* what the call before this one left, if there was one
    \* ---- one DeliveryTimePredictor instance
    model, scaler, feature_names, is_trained,
    hour_averages, day_averages, overall_average, use_simple_model,
    store_avg_dict, vehicle_avg_dict,
    artifact,            \* what is stored at model_path
    lastCall,            \* the last method called on the predictor
    outcome,             \* what that call returned or raised
    ridge_test_r2,       \* local of the last train call (steps of 0.05)
    rf_test_r2,          \* local of the last train call (steps of 0.05)
    \* ---- one train_model_from_database call
    tpc,                 \* position in train_model_from_database
    dbRows,              \* what the training query returns
    training_data,       \* local of train_model_from_database
    trainer_result,      \* the pair train_model_from_database returned
    \* ---- one application of a pure computation
    call,                \* the computation and its arguments
    value                \* what it gave

optVars == <<dbPending, dbVehicles, dbLogVehicles, pc, max_per_vehicle, pending_deliveries,
             available_vehicles, sorted_clusters, ci, vehicle_loads,
             assignments, remaining, time_saved, ui, updated_count, updates,
             update_errors, result, previous>>

predVars == <<model, scaler, feature_names, is_trained, hour_averages,
              day_averages, overall_average, use_simple_model,
              store_avg_dict, vehicle_avg_dict, artifact, lastCall, outcome,
              ridge_test_r2, rf_test_r2>>

trainerVars == <<tpc, dbRows, training_data, trainer_result>>

fnVars == <<call, value>>

vars == <<optVars, predVars, trainerVars, fnVars>>

\* what a step of optimize_routes leaves alone
notOptVars == <<predVars, trainerVars, fnVars>>
\* what a method of the predictor, called on its own, leaves alone
notPredVars == <<optVars, trainerVars, fnVars>>

-----------------------------------------------------------------------------
(* Bounds of the model *)

MaxPending == 5
MaxVehicles == 2
MaxLoad == 1
MaxCap == 2

(* Program constants *)

\* optimize_routes(self, max_deliveries_per_vehicle=10)
DefaultCap == 10
\* estimated_savings = total_deliveries * 15
SavingsPerDelivery == 15
\* Python's None, as the value of best_vehicle; vehicle identifiers are >= 0
None == -1

Stores == {"A", "B"}
VehicleIds == 0..2
Caps == (-1..MaxCap) \cup {DefaultCap}

-----------------------------------------------------------------------------
(* Generic helpers *)

RECURSIVE SumSeq(_)
SumSeq(s) == IF s = <<>> THEN 0 ELSE Head(s) + SumSeq(Tail(s))

RECURSIVE Flatten(_)
Flatten(ss) == IF ss = <<>> THEN <<>> ELSE Head(ss) \o Flatten(Tail(ss))

\* Drop leaving the sequence as it is
DropNothing(s, n) == s

\* Python's s[:n] and s[n:] for n >= 0
Take(s, n) == SubSeq(s, 1, IF n < Len(s) THEN n ELSE Len(s))
Drop(s, n) == SubSeq(s, (IF n < Len(s) THEN n ELSE Len(s)) + 1, Len(s))

-----------------------------------------------------------------------------
(* The repository's possible answers *)

\* Pending rows: Order_ID is the primary key, here the row's position.
PendingRows ==
    UNION {{[i \in 1..n |-> [Order_ID |-> i, StoreID |-> f[i], VehicleID |-> None]] :
                f \in [1..n -> Stores]} : n \in 0..MaxPending}

\* Availability rows: one row per vehicle (GROUP BY VehicleID), ORDER BY
\* Current_Load ASC.
VehicleRows ==
    {v \in UNION {[1..n -> [VehicleID : VehicleIds, Current_Load : 0..MaxLoad]] :
                      n \in 0..MaxVehicles} :
        /\ \A i, j \in DOMAIN v : i # j => v[i].VehicleID # v[j].VehicleID
        /\ \A i, j \in DOMAIN v : i < j => v[i].Current_Load <= v[j].Current_Load}

\* AvailableVehicles joining the pending rows of a vehicle as well
AvailableVehiclesCountingPending(vehicles, pending) ==
    [i \in DOMAIN vehicles |->
        [vehicles[i] EXCEPT !.Current_Load =
            @ + Cardinality({j \in DOMAIN pending :
                                pending[j].VehicleID = vehicles[i].VehicleID})]]

\* The availability query over the store: Current_Load counts the rows of
\* the delivery log joined on Pickup_Time IS NOT NULL AND Delivery_Time IS
\* NULL, which are the loads of the vehicle rows; a pending row has
\* Pickup_Time NULL and is not joined, whatever its VehicleID.
AvailableVehicles(vehicles, pending) == vehicles

\* Fallback rows: SELECT DISTINCT VehicleID, 0 AS Current_Load
FallbackRows(ids) == [i \in DOMAIN ids |-> [VehicleID |-> ids[i], Current_Load |-> 0]]

-----------------------------------------------------------------------------
(* RouteOptimizer: pure parts *)

\* Python truthiness of best_vehicle (None or an integer identifier)
Truthy(v) == v # None /\ v # 0

RECURSIVE ClusterInto(_, _)
ClusterInto(clusters, deliveries) ==
    IF deliveries = <<>> THEN clusters
    ELSE LET d == Head(deliveries)
             known == \E k \in DOMAIN clusters : clusters[k].store_id = d.StoreID
             next == IF known
                     THEN [k \in DOMAIN clusters |->
                             IF clusters[k].store_id = d.StoreID
                             THEN [clusters[k] EXCEPT !.deliveries = Append(@, d)]
                             ELSE clusters[k]]
                     ELSE Append(clusters, [store_id |-> d.StoreID, deliveries |-> <<d>>])
         IN ClusterInto(next, Tail(deliveries))

\* dict items in insertion order
ClusterDeliveriesByStore(deliveries) == ClusterInto(<<>>, deliveries)

\* insert c after every element at least as large: a stable descending order
RECURSIVE InsertBySize(_, _)
InsertBySize(s, c) ==
    IF s = <<>> THEN <<c>>
    ELSE IF Len(Head(s).deliveries) >= Len(c.deliveries)
         THEN <<Head(s)>> \o InsertBySize(Tail(s), c)
         ELSE <<c>> \o s

RECURSIVE SortBySizeDesc(_)
SortBySizeDesc(cl) ==
    IF cl = <<>> THEN <<>>
    ELSE InsertBySize(SortBySizeDesc(SubSeq(cl, 1, Len(cl) - 1)), cl[Len(cl)])

\* the clusters left in dict order
SortedClustersUnsorted(clusters) == clusters

\* sorted(clusters.items(), key=lambda x: len(x[1]), reverse=True)
SortedClusters(clusters) == SortBySizeDesc(clusters)

InitialLoads(vehicles) ==
    [id \in {vehicles[i].VehicleID : i \in DOMAIN vehicles} |->
        vehicles[CHOOSE i \in DOMAIN vehicles : vehicles[i].VehicleID = id /\
            \A j \in DOMAIN vehicles : vehicles[j].VehicleID = id => j <= i].Current_Load]

\* FitsWhole without the vehicle's tracked load
FitsWholeIgnoringLoad(load, size, cap) == size <= cap

\* does the vehicle take the entire cluster
FitsWhole(load, size, cap) == load + size <= cap

\* the scan of the vehicle list for the lowest-loaded vehicle that fits
RECURSIVE ScanWhole(_, _, _, _, _, _)
ScanWhole(vehicles, loads, size, cap, best, min_load) ==
    IF vehicles = <<>> THEN best
    ELSE LET id == Head(vehicles).VehicleID
             take == FitsWhole(loads[id], size, cap) /\
                     (best = None \/ loads[id] < min_load)
         IN ScanWhole(Tail(vehicles), loads, size, cap,
                      IF take THEN id ELSE best,
                      IF take THEN loads[id] ELSE min_load)

\* the scan taking a vehicle that ties with the best so far
RECURSIVE ScanWholeLastTie(_, _, _, _, _, _)
ScanWholeLastTie(vehicles, loads, size, cap, best, min_load) ==
    IF vehicles = <<>> THEN best
    ELSE LET id == Head(vehicles).VehicleID
             take == FitsWhole(loads[id], size, cap) /\
                     (best = None \/ loads[id] <= min_load)
         IN ScanWholeLastTie(Tail(vehicles), loads, size, cap,
                             IF take THEN id ELSE best,
                             IF take THEN loads[id] ELSE min_load)

\* BestWholeVehicle with current_load <= min_load
BestWholeVehicleLastTie(vehicles, loads, size, cap) ==
    ScanWholeLastTie(vehicles, loads, size, cap, None, 0)

BestWholeVehicle(vehicles, loads, size, cap) ==
    ScanWhole(vehicles, loads, size, cap, None, 0)

\* the scan of the vehicle list for the vehicle with the most capacity;
\* the result is <<best_vehicle, max_capacity>>
RECURSIVE ScanCapacity(_, _, _, _)
ScanCapacity(vehicles, loads, cap, acc) ==
    IF vehicles = <<>> THEN acc
    ELSE LET id == Head(vehicles).VehicleID
             capacity == cap - loads[id]
         IN ScanCapacity(Tail(vehicles), loads, cap,
                         IF capacity > acc[2] THEN <<id, capacity>> ELSE acc)

MostCapacity(vehicles, loads, cap) == ScanCapacity(vehicles, loads, cap, <<None, 0>>)

\* SplitChunkSize taking nothing
SplitChunkSizeZero(max_capacity) == 0

\* SplitChunkSize handing out one delivery at a time
SplitChunkSizeOne(max_capacity) == 1

\* chunk = remaining[:max_capacity]
SplitChunkSize(max_capacity) == max_capacity

Entry(vehicle_id, store_id, deliveries) ==
    [vehicle_id |-> vehicle_id, store_id |-> store_id,
     deliveries |-> deliveries, delivery_count |-> Len(deliveries)]

\* _split_and_assign_cluster run to its end: <<assignments, vehicle_loads>>
RECURSIVE SplitAndAssignCluster(_, _, _, _, _, _)
SplitAndAssignCluster(store_id, rem, vehicles, loads, cap, asg) ==
    LET found == MostCapacity(vehicles, loads, cap)
        best_vehicle == found[1]
        max_capacity == found[2]
        n == SplitChunkSize(max_capacity)
        chunk == Take(rem, n)
    IN IF rem = <<>> \/ ~Truthy(best_vehicle) \/ max_capacity = 0
       THEN <<asg, loads>>
       ELSE SplitAndAssignCluster(store_id, Drop(rem, n), vehicles,
                                  [loads EXCEPT ![best_vehicle] = @ + Len(chunk)],
                                  cap,
                                  Append(asg, Entry(best_vehicle, store_id, chunk)))

\* the for loop of _assign_clusters_to_vehicles run to its end
RECURSIVE AssignSorted(_, _, _, _, _)
AssignSorted(clusters, vehicles, loads, cap, asg) ==
    IF clusters = <<>> THEN asg
    ELSE LET c == Head(clusters)
             size == Len(c.deliveries)
             best_vehicle == BestWholeVehicle(vehicles, loads, size, cap)
         IN IF Truthy(best_vehicle)
            THEN AssignSorted(Tail(clusters), vehicles,
                              [loads EXCEPT ![best_vehicle] = @ + size], cap,
                              Append(asg, Entry(best_vehicle, c.store_id, c.deliveries)))
            ELSE LET split == SplitAndAssignCluster(c.store_id, c.deliveries,
                                                    vehicles, loads, cap, asg)
                 IN AssignSorted(Tail(clusters), vehicles, split[2], cap, split[1])

\* _assign_clusters_to_vehicles as a function of its arguments
AssignClustersToVehicles(clusters, vehicles, cap) ==
    AssignSorted(SortedClusters(clusters), vehicles, InitialLoads(vehicles), cap, <<>>)

EstimateTimeSavings(asg) ==
    IF asg = <<>> THEN 0
    ELSE SumSeq([i \in DOMAIN asg |-> asg[i].delivery_count]) * SavingsPerDelivery

\* the (vehicle, order) pairs of the two nested persist loops, in order
PlannedUpdates(asg) ==
    Flatten([i \in DOMAIN asg |->
        [j \in DOMAIN asg[i].deliveries |->
            [vehicle_id |-> asg[i].vehicle_id,
             order_id |-> asg[i].deliveries[j].Order_ID]]])

VehiclesUsed(asg) == Len(asg)

\* updated_count += 1
CountUpdate(n) == n + 1

NoPendingResult ==
    [success |-> FALSE, message |-> [text |-> "No pending deliveries to optimize"],
     optimized_routes |-> <<>>, total_deliveries |-> 0, estimated_time_saved |-> 0]

NoVehiclesResult ==
    [success |-> FALSE, message |-> [text |-> "No available vehicles for route optimization"],
     optimized_routes |-> <<>>, total_deliveries |-> 0, estimated_time_saved |-> 0]

ErrorResult(site) ==
    [success |-> FALSE, message |-> [text |-> "Optimization error", error |-> site],
     optimized_routes |-> <<>>, total_deliveries |-> 0, estimated_time_saved |-> 0]

SuccessResult(asg, count, saved) ==
    [success |-> TRUE,
     message |-> [text |-> "Successfully optimized {} deliveries across {} vehicles",
                  deliveries |-> count, vehicles |-> VehiclesUsed(asg)],
     optimized_routes |-> asg, total_deliveries |-> count,
     estimated_time_saved |-> saved, vehicles_used |-> VehiclesUsed(asg)]

\* optimize_routes has not returned
NoResult == [success |-> FALSE, message |-> [text |-> "(no result yet)"]]

\* IsEmptyVehicles with the test left out
IsEmptyVehiclesUnchecked(rows) == FALSE

\* the emptiness tests of optimize_routes
IsEmptyPending(rows) == Len(rows) = 0
IsEmptyVehicles(rows) == Len(rows) = 0

\* Handler with the fallback query outside every try block
HandlerFallbackUncaught(site) ==
    CASE site = "pending" -> "outer"
      [] site = "vehicles" -> "fallback"
      [] site = "fallback" -> "none"
      [] site = "update" -> "row"

\* Handler with no try block around the availability query
HandlerAvailabilityOuter(site) ==
    CASE site = "pending" -> "outer"
      [] site = "vehicles" -> "outer"
      [] site = "fallback" -> "outer"
      [] site = "update" -> "row"

\* Handler with no try block inside the persist loop
HandlerUpdateOuter(site) ==
    CASE site = "pending" -> "outer"
      [] site = "vehicles" -> "fallback"
      [] site = "fallback" -> "outer"
      [] site = "update" -> "outer"

\* which try block catches an exception raised at a call site
Handler(site) ==
    CASE site = "pending" -> "outer"
      [] site = "vehicles" -> "fallback"
      [] site = "fallback" -> "outer"
      [] site = "update" -> "row"

-----------------------------------------------------------------------------
(* RouteOptimizer: the steps of optimize_routes *)

\* no call of optimize_routes came before this one
NoPrevious == [calls |-> 0]

OptInit ==
    /\ dbPending \in PendingRows
    /\ dbVehicles \in VehicleRows
    \* every vehicle of the Vehicles table has rows in the delivery log
    /\ dbLogVehicles = [i \in DOMAIN dbVehicles |-> dbVehicles[i].VehicleID]
    /\ max_per_vehicle \in Caps
    /\ pc = "get_pending"
    /\ pending_deliveries = <<>>
    /\ available_vehicles = <<>>
    /\ sorted_clusters = <<>>
    /\ ci = 1
    /\ vehicle_loads = <<>>
    /\ assignments = <<>>
    /\ remaining = <<>>
    /\ time_saved = 0
    /\ ui = 1
    /\ updated_count = 0
    /\ updates = <<>>
    /\ update_errors = 0
    /\ result = NoResult
    /\ previous = NoPrevious

\* an exception raised at a site outside the inner handlers: the outer
\* except returns the error dict; with no handler it reaches the caller
RaiseAt(site) ==
    IF Handler(site) = "outer"
    THEN pc' = "done" /\ result' = ErrorResult(site)
    ELSE pc' = "raised" /\ result' = result

GetPending ==
    /\ pc = "get_pending"
    /\ pending_deliveries' = dbPending
    /\ IF IsEmptyPending(dbPending)
       THEN pc' = "done" /\ result' = NoPendingResult
       ELSE pc' = "get_vehicles" /\ result' = result
    /\ UNCHANGED notOptVars
    /\ UNCHANGED previous
    /\ UNCHANGED <<dbPending, dbVehicles, dbLogVehicles, max_per_vehicle, available_vehicles,
                   sorted_clusters, ci, vehicle_loads, assignments, remaining,
                   time_saved, ui, updated_count, updates, update_errors>>

GetPendingRaises ==
    /\ pc = "get_pending"
    /\ RaiseAt("pending")
    /\ UNCHANGED notOptVars
    /\ UNCHANGED previous
    /\ UNCHANGED <<dbPending, dbVehicles, dbLogVehicles, max_per_vehicle, pending_deliveries,
                   available_vehicles, sorted_clusters, ci, vehicle_loads,
                   assignments, remaining, time_saved, ui, updated_count, updates, update_errors>>

\* the tail of step 2, once _get_available_vehicles has returned rows
GotVehicles(rows) ==
    /\ available_vehicles' = rows
    /\ IF IsEmptyVehicles(rows)
       THEN pc' = "done" /\ result' = NoVehiclesResult
       ELSE pc' = "cluster" /\ result' = result

GetVehicles ==
    /\ pc = "get_vehicles"
    /\ GotVehicles(AvailableVehicles(dbVehicles, dbPending))
    /\ UNCHANGED notOptVars
    /\ UNCHANGED previous
    /\ UNCHANGED <<dbPending, dbVehicles, dbLogVehicles, max_per_vehicle, pending_deliveries,
                   sorted_clusters, ci, vehicle_loads, assignments, remaining,
                   time_saved, ui, updated_count, updates, update_errors>>

GetVehiclesRaises ==
    /\ pc = "get_vehicles"
    /\ IF Handler("vehicles") = "fallback"
       THEN pc' = "fallback" /\ result' = result
       ELSE RaiseAt("vehicles")
    /\ UNCHANGED notOptVars
    /\ UNCHANGED previous
    /\ UNCHANGED <<dbPending, dbVehicles, dbLogVehicles, max_per_vehicle, pending_deliveries,
                   available_vehicles, sorted_clusters, ci, vehicle_loads,
                   assignments, remaining, time_saved, ui, updated_count, updates, update_errors>>

Fallback ==
    /\ pc = "fallback"
    /\ GotVehicles(FallbackRows(dbLogVehicles))
    /\ UNCHANGED notOptVars
    /\ UNCHANGED previous
    /\ UNCHANGED <<dbPending, dbVehicles, dbLogVehicles, max_per_vehicle, pending_deliveries,
                   sorted_clusters, ci, vehicle_loads, assignments, remaining,
                   time_saved, ui, updated_count, updates, update_errors>>

FallbackRaises ==
    /\ pc = "fallback"
    /\ RaiseAt("fallback")
    /\ UNCHANGED notOptVars
    /\ UNCHANGED previous
    /\ UNCHANGED <<dbPending, dbVehicles, dbLogVehicles, max_per_vehicle, pending_deliveries,
                   available_vehicles, sorted_clusters, ci, vehicle_loads,
                   assignments, remaining, time_saved, ui, updated_count, updates, update_errors>>

\* step 3 and the head of _assign_clusters_to_vehicles
Cluster ==
    /\ pc = "cluster"
    /\ sorted_clusters' = SortedClusters(ClusterDeliveriesByStore(pending_deliveries))

    /\ vehicle_loads' = InitialLoads(available_vehicles)
    /\ assignments' = <<>>
    /\ ci' = 1
    /\ pc' = "assign"
    /\ UNCHANGED notOptVars
    /\ UNCHANGED previous
    /\ UNCHANGED <<dbPending, dbVehicles, dbLogVehicles, max_per_vehicle, pending_deliveries,
                   available_vehicles, remaining, time_saved, ui, updated_count,
                   updates, update_errors, result>>

\* one iteration of the for loop over sorted_clusters
AssignCluster ==
    /\ pc = "assign"
    /\ ci <= Len(sorted_clusters)
    /\ LET c == sorted_clusters[ci]
           size == Len(c.deliveries)
           best_vehicle == BestWholeVehicle(available_vehicles, vehicle_loads,
                                            size, max_per_vehicle)
       IN IF Truthy(best_vehicle)
          THEN /\ assignments' = Append(assignments,
                                        Entry(best_vehicle, c.store_id, c.deliveries))
               /\ vehicle_loads' = [vehicle_loads EXCEPT ![best_vehicle] = @ + size]
               /\ ci' = ci + 1
               /\ pc' = "assign"
               /\ remaining' = remaining
          ELSE /\ remaining' = c.deliveries
               /\ pc' = "split"
               /\ UNCHANGED <<assignments, vehicle_loads, ci>>
    /\ UNCHANGED notOptVars
    /\ UNCHANGED previous
    /\ UNCHANGED <<dbPending, dbVehicles, dbLogVehicles, max_per_vehicle, pending_deliveries,
                   available_vehicles, sorted_clusters, time_saved, ui,
                   updated_count, updates, update_errors, result>>

\* one iteration of the while loop of _split_and_assign_cluster
SplitStep ==
    /\ pc = "split"
    /\ LET c == sorted_clusters[ci]
           found == MostCapacity(available_vehicles, vehicle_loads, max_per_vehicle)
           best_vehicle == found[1]
           max_capacity == found[2]
           n == SplitChunkSize(max_capacity)
           chunk == Take(remaining, n)
       IN IF remaining = <<>> \/ ~Truthy(best_vehicle) \/ max_capacity = 0
          THEN /\ pc' = "assign"
               /\ ci' = ci + 1
               /\ UNCHANGED <<assignments, vehicle_loads, remaining>>
          ELSE /\ remaining' = Drop(remaining, n)
               /\ assignments' = Append(assignments,
                                        Entry(best_vehicle, c.store_id, chunk))
               /\ vehicle_loads' = [vehicle_loads EXCEPT ![best_vehicle] = @ + Len(chunk)]
               /\ UNCHANGED <<pc, ci>>
    /\ UNCHANGED notOptVars
    /\ UNCHANGED previous
    /\ UNCHANGED <<dbPending, dbVehicles, dbLogVehicles, max_per_vehicle, pending_deliveries,
                   available_vehicles, sorted_clusters, time_saved, ui,
                   updated_count, updates, update_errors, result>>

\* the for loop ends; step 5 and the head of _update_delivery_routes
Estimate ==
    /\ pc = "assign"
    /\ ci > Len(sorted_clusters)
    /\ time_saved' = EstimateTimeSavings(assignments)
    /\ updated_count' = 0
    /\ ui' = 1
    /\ pc' = "persist"
    /\ UNCHANGED notOptVars
    /\ UNCHANGED previous
    /\ UNCHANGED <<dbPending, dbVehicles, dbLogVehicles, max_per_vehicle, pending_deliveries,
                   available_vehicles, sorted_clusters, ci, vehicle_loads,
                   assignments, remaining, updates, update_errors, result>>

\* UPDATE DeliveryLog SET VehicleID = ? WHERE Order_ID = ?
Updated(rows, update) ==
    [i \in DOMAIN rows |->
        IF rows[i].Order_ID = update.order_id
        THEN [rows[i] EXCEPT !.VehicleID = update.vehicle_id]
        ELSE rows[i]]

\* one pass of the inner persist loop: repo.execute returns
UpdateOk ==
    /\ pc = "persist"
    /\ ui <= Len(PlannedUpdates(assignments))
    /\ updates' = Append(updates, PlannedUpdates(assignments)[ui])
    /\ dbPending' = Updated(dbPending, PlannedUpdates(assignments)[ui])
    /\ updated_count' = CountUpdate(updated_count)
    /\ ui' = ui + 1
    /\ UNCHANGED notOptVars
    /\ UNCHANGED previous
    /\ UNCHANGED <<dbVehicles, dbLogVehicles, pc, max_per_vehicle, pending_deliveries,
                   available_vehicles, sorted_clusters, ci, vehicle_loads,
                   assignments, remaining, time_saved, update_errors, result>>

\* one pass of the inner persist loop: repo.execute raises
UpdateRaises ==
    /\ pc = "persist"
    /\ ui <= Len(PlannedUpdates(assignments))
    /\ updates' = Append(updates, PlannedUpdates(assignments)[ui])
    /\ update_errors' = update_errors + 1
    /\ IF Handler("update") = "row"
       THEN /\ ui' = ui + 1
            /\ UNCHANGED <<pc, result>>
       ELSE /\ ui' = ui
            /\ RaiseAt("update")
    /\ UNCHANGED notOptVars
    /\ UNCHANGED previous
    /\ UNCHANGED <<dbPending, dbVehicles, dbLogVehicles, max_per_vehicle, pending_deliveries,
                   available_vehicles, sorted_clusters, ci, vehicle_loads,
                   assignments, remaining, time_saved, updated_count>>

Return ==
    /\ pc = "persist"
    /\ ui > Len(PlannedUpdates(assignments))
    /\ result' = SuccessResult(assignments, updated_count, time_saved)
    /\ pc' = "done"
    /\ UNCHANGED notOptVars
    /\ UNCHANGED previous
    /\ UNCHANGED <<dbPending, dbVehicles, dbLogVehicles, max_per_vehicle, pending_deliveries,
                   available_vehicles, sorted_clusters, ci, vehicle_loads,
                   assignments, remaining, time_saved, ui, updated_count, updates, update_errors>>

\* optimize_routes is called again on the store the call before it left
OptAgain ==
    /\ pc = "done"
    /\ previous = NoPrevious
    /\ previous' = [calls |-> 1, result |-> result, rows |-> dbPending]
    /\ pc' = "get_pending"
    /\ pending_deliveries' = <<>>
    /\ available_vehicles' = <<>>
    /\ sorted_clusters' = <<>>
    /\ ci' = 1
    /\ vehicle_loads' = <<>>
    /\ assignments' = <<>>
    /\ remaining' = <<>>
    /\ time_saved' = 0
    /\ ui' = 1
    /\ updated_count' = 0
    /\ updates' = <<>>
    /\ update_errors' = 0
    /\ result' = NoResult
    /\ UNCHANGED notOptVars
    /\ UNCHANGED <<dbPending, dbVehicles, dbLogVehicles, max_per_vehicle>>

OptNext ==
    \/ GetPending
    \/ GetPendingRaises
    \/ GetVehicles
    \/ GetVehiclesRaises
    \/ Fallback
    \/ FallbackRaises
    \/ Cluster
    \/ AssignCluster
    \/ SplitStep
    \/ Estimate
    \/ UpdateOk
    \/ UpdateRaises
    \/ Return

\* two calls in a row on a repository that does not raise: nothing is picked
\* up or delivered between them and the queries return their rows in the
\* same order
OptTwiceNext ==
    \/ GetPending
    \/ GetVehicles
    \/ Cluster
    \/ AssignCluster
    \/ SplitStep
    \/ Estimate
    \/ UpdateOk
    \/ Return
    \/ OptAgain

-----------------------------------------------------------------------------
(* DeliveryTimePredictor: bounds and constants *)

\* rows of one prediction batch
MaxBatch == 1
\* how far the held-out R2 values range below 0 and above the ridge threshold
R2Span == 1

\* self.overall_average = 147.0
DefaultAverage == 147
\* the hour of an order whose Order_Time is null
DefaultHour == 12
\* if ridge_test_r2 > 0.1, with R2 counted in steps of 0.05
RidgeGoodR2 == 2
\* np.maximum(predictions, 10)
PredictionFloor == 10

Hours == {8}
\* what the fitted regression may output for a row, before the floor
ModelOutputs == {-20, 3, 50}
R2Values == (0 - R2Span)..(RidgeGoodR2 + R2Span)
\* where the body of train's try block may raise
FailPoints == {"none", "features", "split", "ridge", "rf"}

\* an Order_Time cell: a time of day, a null, or text that is no time
OrderTimes ==
    {[kind |-> "time", hour |-> h] : h \in Hours} \cup
    {[kind |-> "null", hour |-> 0], [kind |-> "text", hour |-> 0]}

Row(kind, hour, minutes) ==
    [Order_Time |-> [kind |-> kind, hour |-> hour], Delivery_Time |-> minutes]

\* the training tables tried, each by its distinct rows; the regression's
\* held-out scores are inputs of train, the library computes them
TrainingTables ==
    {<<Row("time", 8, 100)>>,
     <<Row("time", 8, 5), Row("time", 8, 100)>>,
     <<Row("null", 0, 5)>>,
     <<Row("time", 8, 5)>>,
     <<Row("time", 8, 100), Row("text", 0, 100)>>}

\* a mean, kept exact as <<sum, count>>
Mean(values) == <<SumSeq(values), Len(values)>>

-----------------------------------------------------------------------------
(* DeliveryTimePredictor: the artifact at model_path *)

Absent == [kind |-> "absent", data |-> <<>>]
\* a file joblib cannot load, or one that holds no dict
Corrupt == [kind |-> "corrupt", data |-> <<>>]
\* a dict written by an earlier version of the predictor, with no scaler
LegacyBundle ==
    [kind |-> "bundle", data |-> [model |-> "Ridge", feature_names |-> "names"]]

\* a dict written by save_model after a run of train_model_from_database
TrainerBundle ==
    [kind |-> "bundle",
     data |-> [model |-> "Ridge", scaler |-> "fitted", feature_names |-> "names",
               hour_averages |-> [h \in {8} |-> <<100, 1>>],
               day_averages |-> <<>>, overall_average |-> <<100, 1>>,
               use_simple_model |-> FALSE,
               store_avg_dict |->
                   [s \in {"A"} |-> [avg_time |-> 100, total |-> 3, avg_prep |-> <<20, 1>>]],
               vehicle_avg_dict |-> [v \in {1} |-> [avg_time |-> 90, total |-> 3]],
               trained_date |-> "now"]]

InitialArtifacts == {Absent, Corrupt, LegacyBundle, TrainerBundle}

\* dict.get(key, default)
Get(d, key, default) == IF key \in DOMAIN d THEN d[key] ELSE default

-----------------------------------------------------------------------------
(* DeliveryTimePredictor: fields *)

Fields ==
    [model |-> model, scaler |-> scaler, feature_names |-> feature_names,
     is_trained |-> is_trained, hour_averages |-> hour_averages,
     day_averages |-> day_averages, overall_average |-> overall_average,
     use_simple_model |-> use_simple_model, store_avg_dict |-> store_avg_dict,
     vehicle_avg_dict |-> vehicle_avg_dict]

\* the assignments of __init__ before it looks for the artifact
FreshFields ==
    [model |-> "None", scaler |-> "None", feature_names |-> "None",
     is_trained |-> FALSE, hour_averages |-> <<>>, day_averages |-> <<>>,
     overall_average |-> <<DefaultAverage, 1>>, use_simple_model |-> FALSE,
     store_avg_dict |-> <<>>, vehicle_avg_dict |-> <<>>]

\* load_model's return value
LoadModelReturns(art) == art.kind = "bundle"

\* the assignments of load_model's try block
BundleFields(data) ==
    [model |-> Get(data, "model", "None"),
     scaler |-> Get(data, "scaler", "None"),
     feature_names |-> Get(data, "feature_names", "None"),
     hour_averages |-> Get(data, "hour_averages", <<>>),
     day_averages |-> Get(data, "day_averages", <<>>),
     overall_average |-> Get(data, "overall_average", <<DefaultAverage, 1>>),
     use_simple_model |-> Get(data, "use_simple_model", FALSE),
     store_avg_dict |-> Get(data, "store_avg_dict", <<>>),
     vehicle_avg_dict |-> Get(data, "vehicle_avg_dict", <<>>),
     is_trained |-> TRUE]

\* LoadModelFields with a failed load marking the predictor untrained
LoadModelFieldsResetting(f, art) ==
    IF art.kind = "bundle" THEN BundleFields(art.data)
    ELSE [f EXCEPT !.is_trained = FALSE]

\* LoadModelFields with is_trained = True set after the try block
LoadModelFieldsMarking(f, art) ==
    IF art.kind = "bundle" THEN BundleFields(art.data)
    ELSE [f EXCEPT !.is_trained = TRUE]

\* the fields after load_model, from the fields before it
LoadModelFields(f, art) ==
    IF art.kind = "bundle" THEN BundleFields(art.data) ELSE f

\* the dict save_model dumps
ModelData(f) ==
    [model |-> f.model, scaler |-> f.scaler, feature_names |-> f.feature_names,
     hour_averages |-> f.hour_averages, day_averages |-> f.day_averages,
     overall_average |-> f.overall_average,
     use_simple_model |-> f.use_simple_model,
     store_avg_dict |-> f.store_avg_dict,
     vehicle_avg_dict |-> f.vehicle_avg_dict, trained_date |-> "now"]

\* __init__: if os.path.exists(model_path): self.load_model()
Constructed(art) ==
    IF art.kind = "absent" THEN FreshFields ELSE LoadModelFields(FreshFields, art)

FieldsAre(f) ==
    /\ model = f.model
    /\ scaler = f.scaler
    /\ feature_names = f.feature_names
    /\ is_trained = f.is_trained
    /\ hour_averages = f.hour_averages
    /\ day_averages = f.day_averages
    /\ overall_average = f.overall_average
    /\ use_simple_model = f.use_simple_model
    /\ store_avg_dict = f.store_avg_dict
    /\ vehicle_avg_dict = f.vehicle_avg_dict

SetFields(f) ==
    /\ model' = f.model
    /\ scaler' = f.scaler
    /\ feature_names' = f.feature_names
    /\ is_trained' = f.is_trained
    /\ hour_averages' = f.hour_averages
    /\ day_averages' = f.day_averages
    /\ overall_average' = f.overall_average
    /\ use_simple_model' = f.use_simple_model
    /\ store_avg_dict' = f.store_avg_dict
    /\ vehicle_avg_dict' = f.vehicle_avg_dict

Returned(v) == [kind |-> "returned", value |-> v]
Raised(e) == [kind |-> "raised", value |-> e]

PredInit ==
    /\ artifact \in InitialArtifacts
    /\ FieldsAre(Constructed(artifact))
    /\ lastCall = "__init__"
    /\ outcome = Returned("predictor")
    /\ ridge_test_r2 = <<>>
    /\ rf_test_r2 = <<>>

-----------------------------------------------------------------------------
(* DeliveryTimePredictor: pure parts *)

\* train's hour column: int(str(x).split(':')[0]) if pd.notna(x) else 12
TrainHour(t) == IF t.kind = "null" THEN DefaultHour ELSE t.hour

RECURSIVE DurationsAt(_, _)
DurationsAt(rows, h) ==
    IF rows = <<>> THEN <<>>
    ELSE (IF TrainHour(Head(rows).Order_Time) = h
          THEN <<Head(rows).Delivery_Time>> ELSE <<>>) \o DurationsAt(Tail(rows), h)

\* df.groupby('hour')['Delivery_Time'].mean().to_dict()
HourAverages(rows) ==
    [h \in {TrainHour(rows[i].Order_Time) : i \in DOMAIN rows} |->
        Mean(DurationsAt(rows, h))]

\* df['Delivery_Time'].mean()
OverallAverage(rows) == Mean([i \in DOMAIN rows |-> rows[i].Delivery_Time])

\* int(str(x).split(':')[0]) raises on anything that is no time, a null included
ParsesAsHour(t) == t.kind = "time"

\* if ridge_test_r2 > 0.1
RidgeDecent(ridge_r2) == ridge_r2 > RidgeGoodR2

\* if rf_test_r2 > ridge_test_r2 and rf_test_r2 > 0
ForestBetter(rf_r2, ridge_r2) == rf_r2 > ridge_r2 /\ rf_r2 > 0

Report(model_type, test_r2, samples) ==
    [model_type |-> model_type, test_r2 |-> test_r2, samples |-> samples]

\* NotTrained with the test left out
NotTrainedUnchecked(trained) == FALSE

\* if not self.is_trained: raise ValueError("Model not trained")
NotTrained(trained) == ~trained

\* hour_averages.get(hour, overall_average)
SimplePrediction(averages, overall, hour) ==
    IF hour \in DOMAIN averages THEN averages[hour] ELSE overall

\* Floored with the maximum left out
FlooredUnclamped(p) == p

\* np.maximum(predictions, 10)
Floored(p) == IF p < PredictionFloor THEN PredictionFloor ELSE p

\* a prediction batch: one of the columns Order_Hour, Order_Time, or neither
PredictBatches ==
    UNION {{[column |-> "Order_Hour", cells |-> c] :
                c \in [1..n -> Hours \cup {DefaultHour}]} \cup
           {[column |-> "Order_Time", cells |-> c] : c \in [1..n -> OrderTimes]} \cup
           {[column |-> "neither", cells |-> [i \in 1..n |-> 0]]} : n \in 0..MaxBatch}

-----------------------------------------------------------------------------
(* DeliveryTimePredictor: the methods *)

\* train(training_data); fail, ridge_r2 and rf_r2 are what the library does
Train(rows, fail, ridge_r2, rf_r2) ==
    LET unparseable == \E i \in DOMAIN rows : rows[i].Order_Time.kind = "text"
        nullTime == \E i \in DOMAIN rows : rows[i].Order_Time.kind = "null"
        namesSet == fail # "features"
        scaled == fail \notin {"features", "split"}
        ridgeScored == fail \notin {"features", "split", "ridge"}
        useRidge == ridgeScored /\ RidgeDecent(ridge_r2)
        forestScored == ridgeScored /\ ~useRidge /\ fail # "rf"
        useForest == forestScored /\ ForestBetter(rf_r2, ridge_r2)
        simple == ~useRidge /\ ~useForest
    IN /\ lastCall' = "train"
       /\ artifact' = artifact
       /\ IF unparseable
          THEN \* the hour column cannot be computed: ValueError, before any field
               /\ outcome' = Raised("ValueError")
               /\ ridge_test_r2' = <<>>
               /\ rf_test_r2' = <<>>
               /\ SetFields(Fields)
          ELSE IF rows = <<>>
          THEN \* a table with its columns and no row: no feature, the simple
               \* model is committed and _get_simple_metrics raises on the
               \* empty arrays, in the try block and again in its handler
               /\ hour_averages' = HourAverages(rows)
               /\ overall_average' = OverallAverage(rows)
               /\ use_simple_model' = TRUE
               /\ is_trained' = TRUE
               /\ UNCHANGED <<model, scaler, feature_names, day_averages,
                              store_avg_dict, vehicle_avg_dict>>
               /\ ridge_test_r2' = <<>>
               /\ rf_test_r2' = <<>>
               /\ outcome' = Raised("ValueError")
          ELSE /\ hour_averages' = HourAverages(rows)
               /\ overall_average' = OverallAverage(rows)
               /\ feature_names' = IF namesSet THEN "names" ELSE feature_names
               /\ scaler' = IF scaled THEN "fitted" ELSE scaler
               /\ model' = IF useRidge THEN "Ridge"
                           ELSE IF useForest THEN "RandomForest" ELSE model
               /\ use_simple_model' = simple
               /\ is_trained' = TRUE
               /\ UNCHANGED <<day_averages, store_avg_dict, vehicle_avg_dict>>
               /\ ridge_test_r2' = IF ridgeScored THEN <<ridge_r2>> ELSE <<>>
               /\ rf_test_r2' = IF forestScored THEN <<rf_r2>> ELSE <<>>
               /\ outcome' =
                    IF useRidge
                    THEN Returned(Report("Ridge Regression", ridge_r2, Len(rows)))
                    ELSE IF useForest
                    THEN Returned(Report("Random Forest", rf_r2, Len(rows)))
                    ELSE IF nullTime
                    THEN \* _get_simple_metrics parses Order_Time again
                         Raised("ValueError")
                    ELSE Returned(Report("Simple Time-Based", 0, Len(rows)))

\* the scores train never computes are left at the lowest value
Computed(fail, ridge_r2, rf_r2) ==
    LET lowest == 0 - R2Span
    IN /\ fail \in {"features", "split", "ridge"} => ridge_r2 = lowest
       /\ (fail # "none" \/ RidgeDecent(ridge_r2)) => rf_r2 = lowest

TrainCall ==
    /\ \E rows \in TrainingTables, fail \in FailPoints,
          ridge_r2 \in R2Values, rf_r2 \in R2Values :
            /\ Computed(fail, ridge_r2, rf_r2)
            /\ Train(rows, fail, ridge_r2, rf_r2)
    /\ UNCHANGED notPredVars

\* _predict_simple
PredictSimple(batch) ==
    IF batch.column = "Order_Time" /\
       \E i \in DOMAIN batch.cells : ~ParsesAsHour(batch.cells[i])
    THEN Raised("ValueError")
    ELSE Returned([i \in DOMAIN batch.cells |->
            SimplePrediction(hour_averages, overall_average,
                CASE batch.column = "Order_Hour" -> batch.cells[i]
                  [] batch.column = "Order_Time" -> batch.cells[i].hour
                  [] OTHER -> DefaultHour)])

\* the regression branch of predict; outputs are the model's raw predictions
PredictRegression(batch, outputs) ==
    IF batch.column = "Order_Time" /\
       \E i \in DOMAIN batch.cells : batch.cells[i].kind = "text"
    THEN Raised("ValueError")
    ELSE IF batch.cells = <<>>
    THEN Returned(<<>>)
    ELSE IF scaler # "fitted" \/ model = "None"
    THEN Raised("AttributeError")
    ELSE Returned([i \in DOMAIN batch.cells |-> <<Floored(outputs[i]), 1>>])

PredictOutcome(batch, outputs) ==
    IF NotTrained(is_trained) THEN Raised("ValueError: Model not trained")
    ELSE IF use_simple_model THEN PredictSimple(batch)
    ELSE PredictRegression(batch, outputs)

\* does predict reach self.model.predict
ReachesModel(batch) ==
    /\ is_trained /\ ~use_simple_model /\ scaler = "fitted" /\ model # "None"
    /\ batch.cells # <<>>

PredictCall ==
    /\ \E batch \in PredictBatches :
         IF ReachesModel(batch)
         THEN \E outputs \in [DOMAIN batch.cells -> ModelOutputs] :
                 outcome' = PredictOutcome(batch, outputs)
         ELSE outcome' = PredictOutcome(batch, <<>>)
    /\ lastCall' = "predict"
    /\ ridge_test_r2' = <<>>
    /\ rf_test_r2' = <<>>
    /\ SetFields(Fields)
    /\ UNCHANGED artifact
    /\ UNCHANGED notPredVars

\* save_model, joblib.dump succeeding
SaveModel ==
    /\ lastCall' = "save_model"
    /\ IF NotTrained(is_trained)
       THEN /\ outcome' = Raised("ValueError: Cannot save untrained model")
            /\ UNCHANGED artifact
       ELSE /\ outcome' = Returned("None")
            /\ artifact' = [kind |-> "bundle", data |-> ModelData(Fields)]
    /\ ridge_test_r2' = <<>>
    /\ rf_test_r2' = <<>>
    /\ SetFields(Fields)
    /\ UNCHANGED notPredVars

\* save_model, joblib.dump raising: the file is as before or cut short
SaveModelRaises ==
    /\ ~NotTrained(is_trained)
    /\ lastCall' = "save_model"
    /\ outcome' = Raised("OSError")
    /\ artifact' \in {artifact, Corrupt}
    /\ ridge_test_r2' = <<>>
    /\ rf_test_r2' = <<>>
    /\ SetFields(Fields)
    /\ UNCHANGED notPredVars

LoadModel ==
    /\ lastCall' = "load_model"
    /\ outcome' = Returned(LoadModelReturns(artifact))
    /\ SetFields(LoadModelFields(Fields, artifact))
    /\ ridge_test_r2' = <<>>
    /\ rf_test_r2' = <<>>
    /\ UNCHANGED artifact
    /\ UNCHANGED notPredVars

\* DeliveryTimePredictor(model_path) once more: a fresh instance on the path
NewInstance ==
    /\ lastCall' = "__init__"
    /\ outcome' = Returned("predictor")
    /\ SetFields(Constructed(artifact))
    /\ ridge_test_r2' = <<>>
    /\ rf_test_r2' = <<>>
    /\ UNCHANGED artifact
    /\ UNCHANGED notPredVars

FeatureImportance ==
    IF ~is_trained \/ use_simple_model THEN Returned(<<"order_hour">>)
    ELSE IF model = "None" THEN Returned(<<>>)
    ELSE IF feature_names = "None" THEN Raised("TypeError")
    ELSE Returned(<<"features by importance">>)

GetFeatureImportance ==
    /\ lastCall' = "get_feature_importance"
    /\ outcome' = FeatureImportance
    /\ ridge_test_r2' = <<>>
    /\ rf_test_r2' = <<>>
    /\ SetFields(Fields)
    /\ UNCHANGED artifact
    /\ UNCHANGED notPredVars

PredNext ==
    \/ TrainCall
    \/ PredictCall
    \/ SaveModel
    \/ SaveModelRaises
    \/ LoadModel
    \/ NewInstance
    \/ GetFeatureImportance

-----------------------------------------------------------------------------
(* train_model_from_database *)

\* rows the training query may return
MaxRows == 11

\* if not rows or len(rows) < 10
MinRows == 10
\* lambda x: x if x >= 0 else x + 1440
DayMinutes == 1440
\* training_data['Prep_Time_Minutes'] <= 120
MaxPrep == 120
\* store_prep_avg.get(store_id, 15)
DefaultPrep == 15

\* Pickup_Time_Minutes - Order_Time_Minutes, a negative difference wrapped
PrepTime(order_minutes, pickup_minutes) ==
    LET x == pickup_minutes - order_minutes
    IN IF x >= 0 THEN x ELSE x + DayMinutes

\* KeptForTraining with the lower limit only
KeptForTrainingNoUpper(prep) == prep >= 0

\* (Prep_Time_Minutes >= 0) & (Prep_Time_Minutes <= 120)
KeptForTraining(prep) == prep >= 0 /\ prep <= MaxPrep

\* a row of the training query; the query keeps 20 <= Delivery_Time <= 400
\* and rows whose Order_Time and Pickup_Time are not null
LogRow(order_minutes, pickup_minutes) ==
    [Order_Time_Minutes |-> order_minutes, Pickup_Time_Minutes |-> pickup_minutes,
     StoreID |-> "A", Delivery_Time |-> 100]

LogRowKinds ==
    {LogRow(600, 620), LogRow(1430, 10), LogRow(600, 721), LogRow(620, 600)}

\* the tables the training query returns: rows of one kind, then of another
LogTables ==
    {[i \in 1..n |-> IF i <= k THEN a ELSE b] :
        n \in 0..MaxRows, k \in 0..MaxRows, a \in LogRowKinds, b \in LogRowKinds}

RECURSIVE PrepFilter(_)
\* lines 437-450: the rows whose derived prep time is kept, with that column
PrepFilter(rows) ==
    IF rows = <<>> THEN <<>>
    ELSE LET r == Head(rows)
             prep == PrepTime(r.Order_Time_Minutes, r.Pickup_Time_Minutes)
         IN (IF KeptForTraining(prep)
             THEN <<[Order_Time_Minutes |-> r.Order_Time_Minutes,
                     Pickup_Time_Minutes |-> r.Pickup_Time_Minutes,
                     StoreID |-> r.StoreID, Delivery_Time |-> r.Delivery_Time,
                     Prep_Time_Minutes |-> prep]>>
             ELSE <<>>) \o PrepFilter(Tail(rows))

\* if not rows or len(rows) < 10
TooFewRows(rows) == Len(rows) < MinRows

\* what train reads of the trainer's table: CAST(Order_Time AS VARCHAR(8))
\* and Delivery_Time
TrainRows(td) ==
    [i \in DOMAIN td |->
        Row("time", td[i].Order_Time_Minutes \div 60, td[i].Delivery_Time)]

\* the results of the two statistics queries
StoreStats ==
    {<<>>, <<[StoreID |-> "A", Avg_Delivery_Time |-> 100, Total_Deliveries |-> 3]>>}
VehicleStats ==
    {<<>>, <<[VehicleID |-> 1, Avg_Delivery_Time |-> 90, Total_Deliveries |-> 3]>>}

RECURSIVE PrepsOf(_, _)
PrepsOf(td, store) ==
    IF td = <<>> THEN <<>>
    ELSE (IF Head(td).StoreID = store THEN <<Head(td).Prep_Time_Minutes>> ELSE <<>>)
         \o PrepsOf(Tail(td), store)

\* lines 491-501
StoreAvgDict(stats, td) ==
    IF stats = <<>> THEN <<>>
    ELSE [s \in {stats[i].StoreID : i \in DOMAIN stats} |->
            LET row == stats[CHOOSE i \in DOMAIN stats : stats[i].StoreID = s]
            IN [avg_time |-> row.Avg_Delivery_Time, total |-> row.Total_Deliveries,
                avg_prep |-> IF PrepsOf(td, s) = <<>> THEN <<DefaultPrep, 1>>
                             ELSE Mean(PrepsOf(td, s))]]

\* lines 503-508
VehicleAvgDict(stats) ==
    IF stats = <<>> THEN <<>>
    ELSE [v \in {stats[i].VehicleID : i \in DOMAIN stats} |->
            LET row == stats[CHOOSE i \in DOMAIN stats : stats[i].VehicleID = v]
            IN [avg_time |-> row.Avg_Delivery_Time, total |-> row.Total_Deliveries]]

NoPair == [predictor |-> "None", metrics |-> "None"]
NotReturned == [predictor |-> "-", metrics |-> "-"]

TrainerInit ==
    /\ tpc = "connect"
    /\ dbRows \in LogTables
    /\ training_data = <<>>
    /\ trainer_result = NotReturned
    /\ artifact \in InitialArtifacts
    \* no predictor exists before line 526
    /\ FieldsAre(FreshFields)
    /\ lastCall = "none"
    /\ outcome = Returned("None")
    /\ ridge_test_r2 = <<>>
    /\ rf_test_r2 = <<>>

\* an exception in train_model_from_database, which has no handler
TrainerRaises(at) ==
    /\ tpc = at
    /\ tpc' = "raised"
    /\ UNCHANGED <<dbRows, training_data, trainer_result>>

\* repo = AzureSqlRepository()
Connect ==
    /\ tpc = "connect"
    /\ tpc' = "fetch"
    /\ UNCHANGED <<dbRows, training_data, trainer_result>>
    /\ UNCHANGED <<optVars, predVars, fnVars>>

\* AzureSqlRepository() raising "Failed to establish database connection"
ConnectRaises ==
    /\ TrainerRaises("connect")
    /\ UNCHANGED <<optVars, predVars, fnVars>>

\* lines 421-456: the training query, the row count test, the prep filter
FetchRows ==
    /\ tpc = "fetch"
    /\ IF TooFewRows(dbRows)
       THEN /\ tpc' = "done"
            /\ trainer_result' = NoPair
            /\ UNCHANGED training_data
       ELSE /\ tpc' = "stats"
            /\ training_data' = PrepFilter(dbRows)
            /\ UNCHANGED trainer_result
    /\ UNCHANGED dbRows
    /\ UNCHANGED <<optVars, predVars, fnVars>>

FetchRowsRaises ==
    /\ TrainerRaises("fetch")
    /\ UNCHANGED <<optVars, predVars, fnVars>>

\* lines 459-528: the statistics queries, the lookup tables, the predictor
\* constructed at the default path and given the tables
FetchStatsAndConstruct ==
    /\ tpc = "stats"
    /\ \E store_stats \in StoreStats, vehicle_stats \in VehicleStats :
         SetFields([Constructed(artifact) EXCEPT
             !.store_avg_dict = StoreAvgDict(store_stats, training_data),
             !.vehicle_avg_dict = VehicleAvgDict(vehicle_stats)])
    /\ tpc' = "train"
    /\ lastCall' = "__init__"
    /\ outcome' = Returned("predictor")
    /\ UNCHANGED <<artifact, ridge_test_r2, rf_test_r2>>
    /\ UNCHANGED <<dbRows, training_data, trainer_result>>
    /\ UNCHANGED <<optVars, fnVars>>

FetchStatsRaises ==
    /\ TrainerRaises("stats")
    /\ UNCHANGED <<optVars, predVars, fnVars>>

\* metrics = predictor.train(training_data)
TrainerTrain ==
    /\ tpc = "train"
    /\ \E fail \in FailPoints, ridge_r2 \in R2Values, rf_r2 \in R2Values :
            /\ Computed(fail, ridge_r2, rf_r2)
            /\ Train(TrainRows(training_data), fail, ridge_r2, rf_r2)
    /\ tpc' = IF outcome'.kind = "raised" THEN "raised" ELSE "save"
    /\ UNCHANGED <<dbRows, training_data, trainer_result>>
    /\ UNCHANGED <<optVars, fnVars>>

\* predictor.save_model(); return predictor, metrics
TrainerSave ==
    /\ tpc = "save"
    /\ lastCall' = "save_model"
    /\ IF NotTrained(is_trained)
       THEN /\ outcome' = Raised("ValueError: Cannot save untrained model")
            /\ tpc' = "raised"
            /\ UNCHANGED <<artifact, trainer_result>>
       ELSE /\ outcome' = Returned("None")
            /\ artifact' = [kind |-> "bundle", data |-> ModelData(Fields)]
            /\ tpc' = "done"
            /\ trainer_result' = [predictor |-> "predictor", metrics |-> outcome.value]
    /\ SetFields(Fields)
    /\ UNCHANGED <<ridge_test_r2, rf_test_r2>>
    /\ UNCHANGED <<dbRows, training_data>>
    /\ UNCHANGED <<optVars, fnVars>>

\* joblib.dump raising in save_model
TrainerSaveRaises ==
    /\ TrainerRaises("save")
    /\ lastCall' = "save_model"
    /\ outcome' = Raised("OSError")
    /\ artifact' \in {artifact, Corrupt}
    /\ SetFields(Fields)
    /\ UNCHANGED <<ridge_test_r2, rf_test_r2>>
    /\ UNCHANGED <<optVars, fnVars>>

TrainerNext ==
    \/ Connect
    \/ ConnectRaises
    \/ FetchRows
    \/ FetchRowsRaises
    \/ FetchStatsAndConstruct
    \/ FetchStatsRaises
    \/ TrainerTrain
    \/ TrainerSave
    \/ TrainerSaveRaises

-----------------------------------------------------------------------------
(* The pure computations, applied to one input *)

\* the spacing of the minutes of the day tried
MinuteStep == 10
\* the largest Order_Hour tried
MaxHour == 23

\* minutes of the day: every MinuteStep-th, and those next to the limits
MinuteGrid ==
    {m \in 0..(DayMinutes - 1) :
        \/ m % MinuteStep = 0
        \/ m \in {1, 10, 1430, MaxPrep - 1, MaxPrep + 1, DayMinutes - MaxPrep - 1,
                  DayMinutes - MaxPrep + 1, DayMinutes - 1}}

\* .astype(int) of a boolean column
AsInt(b) == IF b THEN 1 ELSE 0

\* IsLunchRush starting an hour early
IsLunchRushFromNine(h) == AsInt(h >= 9 /\ h <= 14)

\* prepare_features, lines 82-85
IsMorningRush(h) == AsInt(h >= 7 /\ h <= 9)
IsLunchRush(h) == AsInt(h >= 11 /\ h <= 14)
IsDinnerRush(h) == AsInt(h >= 17 /\ h <= 20)
IsLateNight(h) == AsInt(h >= 22 \/ h <= 5)

\* the columns prepare_features derives from an Order_Hour column alone
HourFeatures(h) ==
    [order_hour |-> h,
     is_morning_rush |-> IsMorningRush(h),
     is_lunch_rush |-> IsLunchRush(h),
     is_dinner_rush |-> IsDinnerRush(h),
     is_late_night |-> IsLateNight(h),
     hour_squared |-> h * h]

\* the session's first day of the week, SET DATEFIRST: 1 = Monday .. 7 = Sunday
DateFirsts == 1..7

\* the days of the week as pandas numbers them, 0 = Monday .. 6 = Sunday
Weekdays == 0..6

\* DATEPART(WEEKDAY, Order_Date), line 410: 1 on the session's first day of
\* the week, up to 7; NULL for a NULL date
SqlWeekday(weekday, datefirst) ==
    IF weekday = None THEN None ELSE ((weekday + 8 - datefirst) % 7) + 1

\* fillna(2) and the else branch, lines 77 and 79
DefaultDay == 2

\* the day_of_week column, lines 72-79
DayOfWeek(source, weekday, datefirst) ==
    IF source = "Day_Of_Week" THEN SqlWeekday(weekday, datefirst)
    ELSE IF source = "Order_Date"
         THEN IF weekday = None THEN DefaultDay ELSE weekday
         ELSE DefaultDay

\* line 86; a missing value compares False
IsWeekend(day_of_week) == AsInt(day_of_week # None /\ day_of_week >= 5)

\* the columns prepare_features derives from the day of the order
DayFeatures(source, weekday, datefirst) ==
    LET day_of_week == DayOfWeek(source, weekday, datefirst)
    IN [day_of_week |-> day_of_week, is_weekend |-> IsWeekend(day_of_week)]

NoValue == [fn |-> "none"]

FnInit ==
    /\ call \in
         {[fn |-> "prep_time", order_minutes |-> o, pickup_minutes |-> p] :
             o \in MinuteGrid, p \in MinuteGrid} \cup
         {[fn |-> "prepare_features", Order_Hour |-> h] : h \in 0..MaxHour} \cup
         {[fn |-> "day_features", source |-> s, weekday |-> d, datefirst |-> f] :
             s \in {"Day_Of_Week", "Order_Date", "neither"},
             d \in Weekdays \cup {None}, f \in DateFirsts}
    /\ value = NoValue


\* lines 437-450 on one row
ApplyPrepTime ==
    /\ call.fn = "prep_time"
    /\ value = NoValue
    /\ LET prep == PrepTime(call.order_minutes, call.pickup_minutes)
       IN value' = [fn |-> "prep_time", prep |-> prep, kept |-> KeptForTraining(prep)]
    /\ UNCHANGED call
    /\ UNCHANGED <<optVars, predVars, trainerVars>>

\* prepare_features on one row that has the Order_Hour column
ApplyPrepareFeatures ==
    /\ call.fn = "prepare_features"
    /\ value = NoValue
    /\ value' = [fn |-> "prepare_features", features |-> HourFeatures(call.Order_Hour)]
    /\ UNCHANGED call
    /\ UNCHANGED <<optVars, predVars, trainerVars>>

\* lines 72-79 and 86 on one row
ApplyDayFeatures ==
    /\ call.fn = "day_features"
    /\ value = NoValue
    /\ value' = [fn |-> "day_features",
                 features |-> DayFeatures(call.source, call.weekday, call.datefirst)]
    /\ UNCHANGED call
    /\ UNCHANGED <<optVars, predVars, trainerVars>>

FnNext ==
    \/ ApplyPrepTime
    \/ ApplyPrepareFeatures
    \/ ApplyDayFeatures


-----------------------------------------------------------------------------
(* Specifications *)

\* no optimize_routes call is made
OptIdle ==
    /\ dbPending = <<>>
    /\ dbVehicles = <<>>
    /\ dbLogVehicles = <<>>
    /\ max_per_vehicle = DefaultCap
    /\ pc = "idle"
    /\ pending_deliveries = <<>>
    /\ available_vehicles = <<>>
    /\ sorted_clusters = <<>>
    /\ ci = 1
    /\ vehicle_loads = <<>>
    /\ assignments = <<>>
    /\ remaining = <<>>
    /\ time_saved = 0
    /\ ui = 1
    /\ updated_count = 0
    /\ updates = <<>>
    /\ update_errors = 0
    /\ result = NoResult
    /\ previous = NoPrevious

\* a predictor constructed with no artifact, on which no method is called
PredIdle ==
    /\ artifact = Absent
    /\ FieldsAre(Constructed(Absent))
    /\ lastCall = "__init__"
    /\ outcome = Returned("predictor")
    /\ ridge_test_r2 = <<>>
    /\ rf_test_r2 = <<>>

\* train_model_from_database is not called
TrainerIdle ==
    /\ tpc = "idle"
    /\ dbRows = <<>>
    /\ training_data = <<>>
    /\ trainer_result = NotReturned

\* no computation is applied on its own
FnIdle ==
    /\ call = [fn |-> "none"]
    /\ value = NoValue

OptSpecInit == OptInit /\ PredIdle /\ TrainerIdle /\ FnIdle

OptSpec == OptSpecInit /\ [][OptNext]_vars

\* one call of optimize_routes runs on one thread, statement after statement:
\* a step that is enabled is eventually taken
OptFairSpec == OptSpecInit /\ [][OptNext]_vars /\ WF_vars(OptNext)

OptTwiceSpec == OptSpecInit /\ [][OptTwiceNext]_vars



PredSpecInit == PredInit /\ OptIdle /\ TrainerIdle /\ FnIdle

PredSpec == PredSpecInit /\ [][PredNext]_vars

TrainerSpecInit == TrainerInit /\ OptIdle /\ FnIdle

TrainerSpec == TrainerSpecInit /\ [][TrainerNext]_vars

FnSpecInit == FnInit /\ OptIdle /\ PredIdle /\ TrainerIdle

FnSpec == FnSpecInit /\ [][FnNext]_vars

-----------------------------------------------------------------------------
(* Properties of optimize_routes (checked under OptSpec) *)

\* the load the run read for a vehicle of its list
ReadLoad(v) ==
    available_vehicles[CHOOSE i \in DOMAIN available_vehicles :
                           available_vehicles[i].VehicleID = v].Current_Load

\* the deliveries an assignment list gives to a vehicle
AssignedTo(asg, v) ==
    SumSeq([k \in DOMAIN asg |->
        IF asg[k].vehicle_id = v THEN Len(asg[k].deliveries) ELSE 0])

DeliveriesIn(asg) == SumSeq([k \in DOMAIN asg |-> Len(asg[k].deliveries)])

VehiclesIn(asg) == {asg[k].vehicle_id : k \in DOMAIN asg}

Done == pc = "done"

\* C1: at every step of a run, every vehicle that has received a delivery
\* carries at most max_per_vehicle: the load read for it at the start plus
\* the deliveries assigned to it so far, whole clusters and chunks together.
C1_CapacityNeverExceeded ==
    \A v \in VehiclesIn(assignments) :
        ReadLoad(v) + AssignedTo(assignments, v) <= max_per_vehicle

\* C1 witness: a run that split a cluster has filled a vehicle that started
\* with a load of its own exactly to the cap.
C1_Witness ==
    /\ Done
    /\ \E j, k \in DOMAIN assignments :
          j # k /\ assignments[j].store_id = assignments[k].store_id
    /\ \E v \in VehiclesIn(assignments) :
          /\ ReadLoad(v) >= 1
          /\ ReadLoad(v) + AssignedTo(assignments, v) = max_per_vehicle

\* C2: a cluster that is no larger than the cap, and that some vehicle of
\* the list can take whole at the moment it is processed, is never handed
\* to the overflow split, whatever the vehicle identifiers are.
C2_NeverSplitWhenFits ==
    (pc = "split" /\ remaining = sorted_clusters[ci].deliveries) =>
        ~ \E i \in DOMAIN available_vehicles :
              vehicle_loads[available_vehicles[i].VehicleID]
                  + Len(sorted_clusters[ci].deliveries) <= max_per_vehicle

\* C3: a run on an empty pending set, or on an empty vehicle set, returns
\* success = false, no deliveries, no assignments and a message that says
\* why, and issues no update.
C3_NoOpOnEmptyInput ==
    (Done /\ (dbPending = <<>> \/ dbVehicles = <<>>)) =>
        /\ result.success = FALSE
        /\ result.total_deliveries = 0
        /\ result.optimized_routes = <<>>
        /\ result.estimated_time_saved = 0
        /\ updates = <<>>
        /\ result.message.text \in
              {"No pending deliveries to optimize",
               "No available vehicles for route optimization",
               "Optimization error"}
        /\ result.message.text # "Optimization error" =>
              result.message.text =
                  IF dbPending = <<>>
                  THEN "No pending deliveries to optimize"
                  ELSE "No available vehicles for route optimization"

\* C3 witness: pending deliveries but no vehicle, and the run said so.
C3_Witness ==
    /\ Done
    /\ dbPending # <<>>
    /\ dbVehicles = <<>>
    /\ result.message.text = "No available vehicles for route optimization"

\* C4: no exception leaves optimize_routes; when the pending query, or the
\* availability query and its fallback, raise, the result is success =
\* false with no deliveries and no update was issued; an update that raises
\* never turns the result into an error.
C4_NoExceptionEscapes ==
    /\ pc # "raised"
    /\ Done =>
          /\ result.message.text # "(no result yet)"
          /\ result.message.text = "Optimization error" =>
                /\ result.message.error \in {"pending", "fallback"}
                /\ result.success = FALSE
                /\ result.total_deliveries = 0
                /\ result.optimized_routes = <<>>
                /\ updates = <<>>
          /\ update_errors > 0 => result.success

\* C4 witness: the availability query and the fallback both raised.
C4_Witness ==
    /\ Done
    /\ result.message.text = "Optimization error"
    /\ result.message.error = "fallback"

\* 3 pending deliveries for store A and 2 for store B, two vehicles at
\* load 0, a cap of 10
EndToEndExample ==
    /\ Len(dbPending) = 5
    /\ Cardinality({i \in DOMAIN dbPending : dbPending[i].StoreID = "A"}) = 3
    /\ Cardinality({i \in DOMAIN dbPending : dbPending[i].StoreID = "B"}) = 2
    /\ Len(dbVehicles) = 2
    /\ \A i \in DOMAIN dbVehicles : dbVehicles[i].Current_Load = 0
    /\ max_per_vehicle = DefaultCap

\* C5: a successful result's estimated_time_saved is 15 times the number of
\* deliveries in the returned assignments, and the end-to-end example, run
\* with every query and update succeeding, gives 2 assignments,
\* total_deliveries = 5 and estimated_time_saved = 75.
C5_TimeSavedAndExample ==
    (Done /\ result.success) =>
        /\ result.estimated_time_saved = 15 * DeliveriesIn(result.optimized_routes)
        /\ (EndToEndExample /\ update_errors = 0 /\ available_vehicles = dbVehicles) =>
              /\ Len(result.optimized_routes) = 2
              /\ result.total_deliveries = 5
              /\ result.estimated_time_saved = 75

\* the part of C5 that holds of the code: the 15-minutes-per-delivery rule
TimeSavedIsFifteenPerDelivery ==
    (Done /\ result.success) =>
        result.estimated_time_saved = 15 * DeliveriesIn(result.optimized_routes)

\* C6: in a successful result vehicles_used, and the vehicle count of the
\* message, is the number of distinct vehicles in the returned assignments.
C6_VehiclesUsedIsDistinctVehicles ==
    (Done /\ result.success) =>
        /\ result.vehicles_used = Cardinality(VehiclesIn(result.optimized_routes))
        /\ result.message.vehicles = Cardinality(VehiclesIn(result.optimized_routes))

\* what vehicles_used is in the code: the number of assignment entries
VehiclesUsedIsEntryCount ==
    (Done /\ result.success) =>
        result.vehicles_used = Len(result.optimized_routes)

\* the run took its vehicles from the fallback query: they are not what the
\* availability query returns
UsedFallback == available_vehicles \notin {<<>>, dbVehicles}

\* C19: when the availability query raises, optimize_routes does not fail:
\* it goes on with the vehicles of the fallback query, every vehicle
\* identifier of the delivery log at tracked load 0, through clustering,
\* assignment and persistence.
C19_AvailabilityFailureFallsBack ==
    /\ [][pc = "get_vehicles" =>
            \/ pc' \in {"cluster", "fallback"}
            \/ pc' = "done" /\ result' = NoVehiclesResult]_vars
    /\ [][(pc = "fallback" /\ result' # ErrorResult("fallback")) =>
            /\ available_vehicles' = FallbackRows(dbLogVehicles)
            /\ IF dbLogVehicles = <<>>
               THEN pc' = "done" /\ result' = NoVehiclesResult
               ELSE pc' = "cluster"]_vars
    /\ [](UsedFallback =>
            /\ pc # "raised"
            /\ \A i \in DOMAIN available_vehicles :
                  /\ available_vehicles[i].Current_Load = 0
                  /\ available_vehicles[i].VehicleID = dbLogVehicles[i]
            /\ Len(available_vehicles) = Len(dbLogVehicles)
            /\ Done =>
                  /\ result.success
                  /\ result.optimized_routes = assignments
                  /\ \A k \in DOMAIN assignments :
                        \E i \in DOMAIN dbLogVehicles :
                            assignments[k].vehicle_id = dbLogVehicles[i]
                  /\ Len(updates) = DeliveriesIn(assignments))

\* C19 witness: a run whose availability query raised has finished with
\* deliveries assigned to the vehicles of the log and their updates issued.
C19_Witness ==
    /\ Done
    /\ UsedFallback
    /\ available_vehicles = FallbackRows(dbLogVehicles)
    /\ result.success
    /\ result.total_deliveries > 0
    /\ updates # <<>>

\* the position of a vehicle in the list the run read
PositionOf(v) ==
    CHOOSE i \in DOMAIN available_vehicles :
        /\ available_vehicles[i].VehicleID = v
        /\ \A j \in DOMAIN available_vehicles :
              available_vehicles[j].VehicleID = v => i <= j

\* the entry a step has just appended
NewEntry == assignments'[Len(assignments')]

\* a step of the for loop that assigns its cluster whole
AssignsWhole == pc = "assign" /\ Len(assignments') = Len(assignments) + 1

\* a step of the while loop that assigns a chunk
AssignsChunk == pc = "split" /\ Len(assignments') = Len(assignments) + 1

\* C21: whenever a cluster is assigned whole, the chosen vehicle has the
\* least tracked load among the vehicles whose load + cluster size is within
\* the cap, it is the earliest of the list among those tied at that load,
\* its load grows by exactly the cluster size and no other load changes.
C21_WholeGoesToLeastLoaded ==
    [][AssignsWhole =>
          LET c == sorted_clusters[ci]
              size == Len(c.deliveries)
              v == NewEntry.vehicle_id
          IN /\ NewEntry.store_id = c.store_id
             /\ NewEntry.deliveries = c.deliveries
             /\ v \in DOMAIN vehicle_loads
             /\ vehicle_loads[v] + size <= max_per_vehicle
             /\ \A w \in DOMAIN vehicle_loads :
                   vehicle_loads[w] + size <= max_per_vehicle =>
                       /\ vehicle_loads[v] <= vehicle_loads[w]
                       /\ vehicle_loads[w] = vehicle_loads[v] =>
                              PositionOf(v) <= PositionOf(w)
             /\ vehicle_loads' = [vehicle_loads EXCEPT ![v] = @ + size]]_vars

\* C21 witness: two vehicles were tied at the least load and the first
\* cluster went whole to the one listed first.
C21_Witness ==
    /\ Len(available_vehicles) = 2
    /\ available_vehicles[1].Current_Load = available_vehicles[2].Current_Load
    /\ Len(assignments) >= 1
    /\ assignments[1].vehicle_id = available_vehicles[1].VehicleID
    /\ assignments[1].deliveries = sorted_clusters[1].deliveries

\* C22: each assigning step of an overflow split takes a vehicle with the
\* greatest remaining capacity, the first of the list on ties, gives it
\* min(length of the remaining queue, that capacity) deliveries from the
\* front of the queue in queue order, and raises its load by the chunk size.
C22_SplitFillsMostCapacity ==
    [][AssignsChunk =>
          LET v == NewEntry.vehicle_id
              capacity == max_per_vehicle - vehicle_loads[v]
              n == IF Len(remaining) < capacity THEN Len(remaining) ELSE capacity
          IN /\ \A w \in DOMAIN vehicle_loads :
                   /\ max_per_vehicle - vehicle_loads[w] <= capacity
                   /\ max_per_vehicle - vehicle_loads[w] = capacity =>
                          PositionOf(v) <= PositionOf(w)
             /\ n >= 1
             /\ NewEntry.store_id = sorted_clusters[ci].store_id
             /\ NewEntry.deliveries = SubSeq(remaining, 1, n)
             /\ remaining' = SubSeq(remaining, n + 1, Len(remaining))
             /\ vehicle_loads' = [vehicle_loads EXCEPT ![v] = @ + n]]_vars

\* C22 witness: a split has filled a vehicle with a chunk of two or more
\* deliveries and deliveries of the cluster are still queued.
C22_Witness ==
    /\ pc = "split"
    /\ remaining # <<>>
    /\ assignments # <<>>
    /\ LET e == assignments[Len(assignments)]
       IN /\ e.store_id = sorted_clusters[ci].store_id
          /\ e.delivery_count >= 2
          /\ vehicle_loads[e.vehicle_id] = max_per_vehicle

\* the Order_IDs an assignment list holds
AssignedOrders(asg) ==
    UNION {{asg[k].deliveries[j].Order_ID : j \in DOMAIN asg[k].deliveries} :
              k \in DOMAIN asg}


\* every vehicle of the list is full
AllFull == \A v \in DOMAIN vehicle_loads : vehicle_loads[v] >= max_per_vehicle

\* C23: at the end of the assignment phase a pending delivery is left out
\* of every assignment only if every vehicle is full; while a vehicle has
\* spare capacity no delivery of a processed cluster stays unassigned,
\* whatever the vehicle identifiers, 0 included.
C23_UnassignedOnlyWhenAllFull ==
    /\ pc = "persist" =>
          ((\E i \in DOMAIN pending_deliveries :
               pending_deliveries[i].Order_ID \notin AssignedOrders(assignments))
           => AllFull)
    /\ pc = "assign" =>
          \A k \in 1..(ci - 1) :
              (\E j \in DOMAIN sorted_clusters[k].deliveries :
                   sorted_clusters[k].deliveries[j].Order_ID
                       \notin AssignedOrders(assignments))
              => AllFull

\* C24: the persist phase issues exactly one update, setting the vehicle
\* identifier, for every delivery of every assignment, in assignment order;
\* an update that raises does not stop those that follow; total_deliveries
\* is the number of updates that did not raise and the run reports success.
C24_OneUpdatePerDelivery ==
    /\ pc = "persist" =>
          updates = SubSeq(PlannedUpdates(assignments), 1, ui - 1)
    /\ (Done /\ (updates # <<>> \/ result.success)) =>
          /\ result.success
          /\ Len(updates) = DeliveriesIn(assignments)
          /\ \A k \in DOMAIN assignments :
                \A j \in DOMAIN assignments[k].deliveries :
                   LET u == updates[DeliveriesIn(SubSeq(assignments, 1, k - 1)) + j]
                   IN /\ u.vehicle_id = assignments[k].vehicle_id
                      /\ u.order_id = assignments[k].deliveries[j].Order_ID
          /\ result.total_deliveries = Len(updates) - update_errors

\* C24 witness: a run in which an update raised and another did not has
\* returned.
C24_Witness ==
    /\ Done
    /\ result.success
    /\ update_errors > 0
    /\ result.total_deliveries > 0

\* C27: the assignments never duplicate or invent a delivery: a fetched
\* pending delivery is in at most one entry, every delivery of an entry is a
\* fetched pending delivery of the entry's store, and an entry's
\* delivery_count is the number of deliveries it holds and at least 1.
C27_NoDuplicateNoInvention ==
    LET asg == IF Done /\ result.success THEN result.optimized_routes
               ELSE assignments
    IN /\ \A k \in DOMAIN asg :
            /\ asg[k].delivery_count = Len(asg[k].deliveries)
            /\ asg[k].delivery_count >= 1
            /\ \A j \in DOMAIN asg[k].deliveries :
                  /\ \E i \in DOMAIN pending_deliveries :
                        pending_deliveries[i] = asg[k].deliveries[j]
                  /\ asg[k].deliveries[j].StoreID = asg[k].store_id
       /\ \A k1, k2 \in DOMAIN asg :
            \A j1 \in DOMAIN asg[k1].deliveries, j2 \in DOMAIN asg[k2].deliveries :
               asg[k1].deliveries[j1].Order_ID = asg[k2].deliveries[j2].Order_ID
                  => (k1 = k2 /\ j1 = j2)

\* C27 witness: a run has split a cluster over two vehicles and returned.
C27_Witness ==
    /\ Done
    /\ result.success
    /\ \E k1, k2 \in DOMAIN result.optimized_routes :
          /\ k1 # k2
          /\ result.optimized_routes[k1].store_id = result.optimized_routes[k2].store_id
          /\ result.optimized_routes[k1].vehicle_id # result.optimized_routes[k2].vehicle_id

\* no vehicle of the list the run read has spare capacity
NoSpareCapacity ==
    /\ pending_deliveries # <<>>
    /\ available_vehicles # <<>>
    /\ \A i \in DOMAIN available_vehicles :
          available_vehicles[i].Current_Load >= max_per_vehicle

\* C29: with pending deliveries and vehicles but no vehicle with spare
\* capacity, optimize_routes issues no update and returns success with no
\* assignment, total_deliveries 0, vehicles_used 0 and estimated_time_saved 0.
C29_NoCapacityIsEmptySuccess ==
    NoSpareCapacity =>
        /\ assignments = <<>>
        /\ updates = <<>>
        /\ Done =>
              /\ result.success
              /\ result.optimized_routes = <<>>
              /\ result.total_deliveries = 0
              /\ result.vehicles_used = 0
              /\ result.estimated_time_saved = 0

\* C29 witness: a run with a cap of 0 has returned.
C29_Witness ==
    /\ Done
    /\ NoSpareCapacity
    /\ max_per_vehicle = 0
    /\ result.success

\* C30: optimize_routes terminates for every finite set of pending
\* deliveries and vehicles and every integer cap, 0 and negative included:
\* every iteration of the split loop removes at least one delivery from the
\* remaining ones or leaves the loop, and every call returns.
C30_Terminates ==
    /\ [][pc = "split" =>
             (Len(remaining') < Len(remaining) \/ pc' # "split")]_vars
    /\ <>Done

\* C30 witness: a run with pending deliveries, vehicles and a cap of 0 or
\* less has returned.
C30_Witness ==
    /\ Done
    /\ result.success
    /\ max_per_vehicle <= 0
    /\ pending_deliveries # <<>>
    /\ available_vehicles # <<>>

\* the orders in which a repository can return n rows
RowOrders ==
    [n \in 0..MaxPending |->
        {p \in [1..n -> 1..n] : \A i, j \in 1..n : i # j => p[i] # p[j]}]

\* the rows in the order p
Permuted(rows, p) == [i \in DOMAIN rows |-> rows[p[i]]]

\* the vehicles a store's cluster goes to, with the number of deliveries
\* each one takes, in assignment order
RECURSIVE VehiclesOfStore(_, _)
VehiclesOfStore(asg, store) ==
    IF asg = <<>> THEN <<>>
    ELSE (IF Head(asg).store_id = store
          THEN <<[vehicle_id |-> Head(asg).vehicle_id,
                  delivery_count |-> Head(asg).delivery_count]>>
          ELSE <<>>) \o VehiclesOfStore(Tail(asg), store)

\* no two clusters of the rows have the same size
DistinctSizes(rows) ==
    LET clusters == ClusterDeliveriesByStore(rows)
    IN \A i, j \in DOMAIN clusters :
          i # j => Len(clusters[i].deliveries) # Len(clusters[j].deliveries)

\* the assignment phase of the run has just ended
AssignmentPhaseEnded == pc = "persist" /\ ui = 1

\* the assignment of the rows returned in the order p gives every store the
\* vehicles the run gave it
SameVehiclesUnder(p) ==
    LET other == AssignClustersToVehicles(
                     ClusterDeliveriesByStore(Permuted(pending_deliveries, p)),
                     available_vehicles, max_per_vehicle)
    IN \A s \in Stores : VehiclesOfStore(other, s) = VehiclesOfStore(assignments, s)

\* C25 as stated: permuting the order in which the repository returns the
\* pending deliveries does not change which vehicle each store's cluster is
\* assigned to, also when two clusters have the same size.
C25_PermutationKeepsVehicles ==
    AssignmentPhaseEnded =>
        \A p \in RowOrders[Len(pending_deliveries)] : SameVehiclesUnder(p)

\* C25 amended: permuting the order in which the repository returns the
\* pending deliveries does not change which vehicle each store's cluster is
\* assigned to, provided no two clusters have the same size.
C25_PermutationKeepsVehiclesDistinctSizes ==
    (AssignmentPhaseEnded /\ DistinctSizes(pending_deliveries)) =>
        \A p \in RowOrders[Len(pending_deliveries)] : SameVehiclesUnder(p)

\* C25 witness: two clusters of different sizes, the smaller one's store
\* returned first, have been assigned to different vehicles.
C25_Witness ==
    /\ AssignmentPhaseEnded
    /\ DistinctSizes(pending_deliveries)
    /\ Len(sorted_clusters) = 2
    /\ sorted_clusters[2].store_id = pending_deliveries[1].StoreID
    /\ Len(assignments) = 2
    /\ assignments[1].vehicle_id # assignments[2].vehicle_id
    /\ assignments[1].store_id # assignments[2].store_id

\* the vehicle every assigned delivery goes to, as <<Order_ID, vehicle>> pairs
RoutesOf(asg) ==
    {<<PlannedUpdates(asg)[k].order_id, PlannedUpdates(asg)[k].vehicle_id>> :
        k \in DOMAIN PlannedUpdates(asg)}

\* the second of two calls in a row has returned
SecondCallReturned == previous # NoPrevious /\ Done

\* C28: optimize_routes is idempotent on an unchanged store: of two calls in
\* a row, with every update succeeding, nothing picked up or delivered in
\* between and the rows returned in the same order, the second assigns every
\* pending delivery to the vehicle the first assigned it to, and leaves the
\* stored vehicle identifiers as the first left them.
C28_SecondCallAssignsTheSame ==
    SecondCallReturned =>
        /\ result.success = previous.result.success
        /\ RoutesOf(result.optimized_routes) =
              RoutesOf(previous.result.optimized_routes)
        /\ dbPending = previous.rows

\* C28 witness: the second call has returned after both calls assigned
\* deliveries to a vehicle that carried a picked-up delivery already.
C28_Witness ==
    /\ SecondCallReturned
    /\ result.success
    /\ \E k \in DOMAIN result.optimized_routes :
          ReadLoad(result.optimized_routes[k].vehicle_id) > 0
    /\ \E i \in DOMAIN dbPending : dbPending[i].VehicleID # None

-----------------------------------------------------------------------------
(* Properties of the predictor (checked under PredSpec) *)

\* C7: predict on a predictor that is not trained raises the not-trained
\* error, returns no prediction and changes no field.
C7_PredictUntrainedRaises ==
    [][(~is_trained /\ lastCall' = "predict") =>
          /\ outcome' = Raised("ValueError: Model not trained")
          /\ Fields' = Fields
          /\ artifact' = artifact]_vars

\* C7 witness: predict has been called on a predictor whose only load, the
\* constructor's, failed on a corrupt artifact.
C7_Witness ==
    /\ lastCall = "predict"
    /\ ~is_trained
    /\ artifact = Corrupt
    /\ outcome.kind = "raised"

\* C8: after every call to train, whatever the rows hold, is_trained is true.
C8_TrainedAfterEveryTrain ==
    lastCall = "train" => is_trained

\* C9: on one predictor instance, once is_trained is true, no call of train,
\* predict, save_model, load_model or get_feature_importance makes it false
\* again (constructing a fresh instance starts another predictor).
C9_TrainedIsStable ==
    [][(is_trained /\ lastCall' # "__init__") => is_trained']_vars

\* C9 witness: a load failed on a predictor that was trained before it.
C9_Witness ==
    /\ is_trained
    /\ lastCall = "load_model"
    /\ outcome.value = FALSE

\* C10: when ridge is weak and the forest was scored, train commits the
\* candidate with the higher held-out R2 if that R2 is above 0, commits the
\* simple fallback only when neither R2 is above 0, and the report names
\* the committed choice.
C10_KeepsTheBetterCandidate ==
    (lastCall = "train" /\ ridge_test_r2 # <<>> /\ rf_test_r2 # <<>>) =>
        LET ridge_r2 == ridge_test_r2[1]
            rf_r2 == rf_test_r2[1]
        IN /\ (rf_r2 > ridge_r2 /\ rf_r2 > 0) =>
                 /\ model = "RandomForest" /\ ~use_simple_model
                 /\ outcome.kind = "returned" =>
                       outcome.value.model_type = "Random Forest"
           /\ (ridge_r2 > rf_r2 /\ ridge_r2 > 0) =>
                 /\ model = "Ridge" /\ ~use_simple_model
                 /\ outcome.kind = "returned" =>
                       outcome.value.model_type = "Ridge Regression"
           /\ use_simple_model => (ridge_r2 <= 0 /\ rf_r2 <= 0)
           /\ (use_simple_model /\ outcome.kind = "returned") =>
                 outcome.value.model_type = "Simple Time-Based"

\* a mean <<sum, count>> is at least k
AtLeast(mean, k) == mean[1] >= k * mean[2]

PredictReturned == lastCall = "predict" /\ outcome.kind = "returned"

\* C11: on a trained predictor, in regression mode or in simple-average mode,
\* every value predict returns is at least 10 minutes.
C11_EveryPredictionAtLeastTen ==
    PredictReturned =>
        \A i \in DOMAIN outcome.value : AtLeast(outcome.value[i], PredictionFloor)

\* C11 as amended: in regression mode every value predict returns is at least
\* 10 minutes; in simple-average mode predict returns the hour's average of
\* the training durations, or the overall average, as it is.
C11_RegressionFlooredSimpleAsIs ==
    PredictReturned =>
        \A i \in DOMAIN outcome.value :
            IF use_simple_model
            THEN outcome.value[i] \in
                     {hour_averages[h] : h \in DOMAIN hour_averages} \cup
                     {overall_average}
            ELSE AtLeast(outcome.value[i], PredictionFloor)

\* C11 witness: a regression model put a row below the floor and predict
\* returned the floor for it.
C11_Witness ==
    /\ PredictReturned
    /\ ~use_simple_model
    /\ \E i \in DOMAIN outcome.value : outcome.value[i] = <<PredictionFloor, 1>>

\* C14: load_model never raises; with the artifact absent or not loadable it
\* returns the not-loaded result and changes no field, so a fresh predictor,
\* also one whose constructor found a corrupt artifact, stays untrained.
C14_FailedLoadChangesNothing ==
    /\ [](lastCall \in {"__init__", "load_model"} => outcome.kind = "returned")
    /\ []((lastCall = "__init__" /\ artifact.kind # "bundle") =>
              (FieldsAre(FreshFields) /\ ~is_trained))
    /\ [][(lastCall' = "load_model" /\ artifact.kind # "bundle") =>
              /\ outcome' = Returned(FALSE)
              /\ Fields' = Fields
              /\ artifact' = artifact]_vars

\* C14 witness: load_model was called on a fresh predictor whose constructor
\* had found a corrupt artifact, and the predictor is still untrained.
C14_Witness ==
    /\ lastCall = "load_model"
    /\ artifact = Corrupt
    /\ outcome = Returned(FALSE)
    /\ FieldsAre(FreshFields)

\* a bundle that lacks the fitted model or the scaler and is not flagged simple
IncompatibleBundle(art) ==
    /\ art.kind = "bundle"
    /\ ~Get(art.data, "use_simple_model", FALSE)
    /\ (Get(art.data, "model", "None") = "None" \/
        Get(art.data, "scaler", "None") = "None")

\* C15: after load_model has read a bundle of an incompatible schema the
\* predictor has is_trained = false, and a later predict fails with the
\* not-trained error.
C15_IncompatibleBundleLeavesUntrained ==
    /\ (lastCall \in {"__init__", "load_model"} /\ IncompatibleBundle(artifact)) =>
          ~is_trained
    /\ (lastCall = "predict" /\ IncompatibleBundle(artifact) /\
        FieldsAre(BundleFields(artifact.data))) =>
          outcome = Raised("ValueError: Model not trained")

\* the state bundle of a trained predictor
StateBundleFields ==
    {"model", "use_simple_model", "scaler", "feature_names",
     "store_avg_dict", "vehicle_avg_dict"}

\* a step that loads, in a fresh instance or by load_model, what the step
\* before it saved
LoadsWhatWasSaved ==
    /\ lastCall = "save_model"
    /\ outcome = Returned("None")
    /\ lastCall' \in {"__init__", "load_model"}

\* C16: save_model followed by load_model on a fresh instance restores the
\* whole state bundle: the model or the simple-mode flag, the scaler, the
\* feature names, the store and vehicle tables, the training timestamp and
\* the training sample count, with is_trained = true.
C16_SaveLoadRestoresBundle ==
    [][LoadsWhatWasSaved =>
          /\ is_trained'
          /\ \A k \in StateBundleFields : Fields'[k] = Fields[k]
          /\ "trained_date" \in DOMAIN artifact.data
          /\ "samples" \in DOMAIN artifact.data]_vars

\* what the round trip does restore: every field of the predictor
SaveLoadRestoresFields ==
    [][LoadsWhatWasSaved => Fields' = Fields]_vars

\* C18: get_feature_importance on a predictor that is not trained returns an
\* empty list.
C18_UntrainedImportanceIsEmpty ==
    (lastCall = "get_feature_importance" /\ ~is_trained) =>
        outcome = Returned(<<>>)

-----------------------------------------------------------------------------
(* Properties of train_model_from_database (checked under TrainerSpec) *)

\* the rows left after all filtering, the prep-time filter included
Survivors == PrepFilter(dbRows)

\* the returned pair holds a trained predictor whose state is in the artifact
TrainedAndSaved ==
    /\ trainer_result.predictor = "predictor"
    /\ is_trained
    /\ artifact.kind = "bundle"
    /\ \A k \in DOMAIN artifact.data \ {"trained_date"} : artifact.data[k] = Fields[k]

\* C12: whenever fewer than 10 rows are left after all filtering, the prep
\* time filter included, train_model_from_database returns (None, None) and
\* neither calls train nor saves a model.
C12_RefusesFewerThanTenSurvivors ==
    Len(Survivors) < MinRows =>
        /\ lastCall \notin {"train", "save_model"}
        /\ tpc = "done" => trainer_result = NoPair

\* what the code refuses: fewer than 10 rows returned by the training query
RefusesFewerThanTenFetched ==
    Len(dbRows) < MinRows =>
        /\ lastCall \notin {"train", "save_model"}
        /\ tpc = "done" => trainer_result = NoPair

\* C13: train_model_from_database always ends by returning (None, None) or a
\* pair whose predictor is trained and saved; no failure of the repository,
\* of train or of save_model reaches the caller as an exception.
C13_PairOrNoneNeverRaises ==
    /\ tpc # "raised"
    /\ tpc = "done" => (trainer_result = NoPair \/ TrainedAndSaved)

\* what the code does give: whenever it returns, the pair is (None, None) or
\* a trained and saved predictor with its metrics
ReturnsPairOrNone ==
    tpc = "done" => (trainer_result = NoPair \/ TrainedAndSaved)

-----------------------------------------------------------------------------
(* Properties of the pure computations (checked under FnSpec) *)

\* C17: for order and pickup minutes of the day, the derived prep time is
\* pickup - order, plus 1440 when that is negative, so it is never negative
\* (1430 and 10 give 20), and the row is kept exactly when it is in [0,120].
C17_PrepTimeWrapsAndFilters ==
    value.fn = "prep_time" =>
        LET d == call.pickup_minutes - call.order_minutes
        IN /\ d >= 0 => value.prep = d
           /\ d < 0 => value.prep = d + 1440
           /\ value.prep = d % 1440
           /\ value.prep >= 0
           /\ (call.order_minutes = 1430 /\ call.pickup_minutes = 10) => value.prep = 20
           /\ value.kept <=> (value.prep >= 0 /\ value.prep <= 120)

\* C17 witness: the order at 23:50 picked up at 00:10 got 20 minutes and
\* was kept.
C17_Witness ==
    /\ value.fn = "prep_time"
    /\ call.order_minutes = 1430
    /\ call.pickup_minutes = 10
    /\ value.prep = 20
    /\ value.kept

\* C20: for every order hour of the day at most one of the four rush
\* indicators is 1; morning is 1 exactly for 7..9, lunch for 11..14, dinner
\* for 17..20 and late night for hours >= 22 or <= 5.
C20_AtMostOneRushIndicator ==
    value.fn = "prepare_features" =>
        LET f == value.features
            h == call.Order_Hour
        IN /\ f.is_morning_rush + f.is_lunch_rush + f.is_dinner_rush
                + f.is_late_night <= 1
           /\ f.is_morning_rush = 1 <=> h \in 7..9
           /\ f.is_lunch_rush = 1 <=> h \in 11..14
           /\ f.is_dinner_rush = 1 <=> h \in 17..20
           /\ f.is_late_night = 1 <=> (h >= 22 \/ h <= 5)
           /\ \A c \in {"is_morning_rush", "is_lunch_rush", "is_dinner_rush",
                        "is_late_night"} : f[c] \in {0, 1}

\* C20 witness: hour 9, the last of the morning rush, fired morning alone.
C20_Witness ==
    /\ value.fn = "prepare_features"
    /\ call.Order_Hour = 9
    /\ value.features.is_morning_rush = 1
    /\ value.features.is_lunch_rush = 0
    /\ value.features.is_dinner_rush = 0
    /\ value.features.is_late_night = 0

\* C26: for the same order, is_weekend is the same whether day_of_week comes
\* from the Day_Of_Week column of the trainer's query (DATEPART(WEEKDAY,
\* Order_Date), 1..7) or is derived from Order_Date (0 = Monday), and it is
\* 1 exactly when the order date is a Saturday or a Sunday.
C26_WeekendSameFromEitherSource ==
    (/\ value.fn = "day_features"
     /\ call.source \in {"Day_Of_Week", "Order_Date"}
     /\ call.weekday # None)
    => /\ value.features.is_weekend =
             DayFeatures("Day_Of_Week", call.weekday, call.datefirst).is_weekend
       /\ value.features.is_weekend =
             DayFeatures("Order_Date", call.weekday, call.datefirst).is_weekend
       /\ (value.features.is_weekend = 1) <=> (call.weekday \in {5, 6})

====
